---- MODULE Spec2Model ----
(***************************************************************************)
(* ODIN workspace: the streaming generation client                         *)
(* (web/app/workspace/components/generation-settings-section.tsx), the     *)
(* project provider (web/app/workspace/hooks/use-workspace-project.tsx,    *)
(* kept as src/unnamed/part_017, second file) and the local cache          *)
(* (web/lib/workspace-storage.ts).                                         *)
(*                                                                         *)
(* Text is a sequence of one-character strings, so that a chunk boundary   *)
(* can fall anywhere, also inside a marker or a line.  A sequence holding  *)
(* one longer string stands for a literal of the code that never travels   *)
(* over the wire (<<"Unknown error">>).                                    *)
(***************************************************************************)
EXTENDS Integers, Sequences, FiniteSets, TLC

\* ------------------------------------------------------------------------
\* Text primitives (JavaScript String semantics)
\* ------------------------------------------------------------------------
NL == "\n"

EVENT_MARK == <<"e", "v", "e", "n", "t", ":">>

DATA_MARK == <<"d", "a", "t", "a", ":">>

DEFAULT_EVENT == <<"m", "e", "s", "s", "a", "g", "e">>

EV_RESULT == <<"r", "e", "s", "u", "l", "t">>

EV_ERROR == <<"e", "r", "r", "o", "r">>

EV_DONE == <<"d", "o", "n", "e">>

IsSpace(c) == c \in {" ", "\n", "\t", "\r"}

\* String.prototype.slice(a, b) with 0-based a (inclusive) and b (exclusive)
Slice(s, a, b) == SubSeq(s, a + 1, b)

\* String.prototype.slice(a)
SliceFrom(s, a) == SubSeq(s, a + 1, Len(s))

\* buffer.indexOf('\n\n'): 0-based index of the first blank line, -1 if none
IndexOfBoundary(s) ==
    LET hits == {i \in 1..(Len(s) - 1) : s[i] = NL /\ s[i + 1] = NL}
    IN  IF hits = {} THEN -1
        ELSE (CHOOSE i \in hits : \A j \in hits : i <= j) - 1

\* String.prototype.trim()
Trim(s) ==
    LET keep == {i \in 1..Len(s) : ~IsSpace(s[i])}
    IN  IF keep = {} THEN <<>>
        ELSE LET lo == CHOOSE i \in keep : \A j \in keep : i <= j
                 hi == CHOOSE i \in keep : \A j \in keep : i >= j
             IN  SubSeq(s, lo, hi)

\* String.prototype.startsWith(p)
StartsWith(s, p) == Len(s) >= Len(p) /\ SubSeq(s, 1, Len(p)) = p

\* String.prototype.split('\n')
RECURSIVE SplitLines(_)
SplitLines(s) ==
    LET nls == {i \in 1..Len(s) : s[i] = NL}
    IN  IF nls = {} THEN <<s>>
        ELSE LET k == CHOOSE i \in nls : \A j \in nls : i <= j
             IN  <<SubSeq(s, 1, k - 1)>> \o SplitLines(SubSeq(s, k + 1, Len(s)))

\* Array.prototype.join('\n')
RECURSIVE JoinLines(_)
JoinLines(ls) ==
    IF ls = <<>> THEN <<>>
    ELSE IF Len(ls) = 1 THEN ls[1]
    ELSE ls[1] \o <<NL>> \o JoinLines(Tail(ls))

\* line.replace(mark, ''): removes the first occurrence of mark
ReplaceFirst(line, mark) ==
    LET hits == {i \in 1..(Len(line) - Len(mark) + 1) :
                    SubSeq(line, i, i + Len(mark) - 1) = mark}
    IN  IF hits = {} THEN line
        ELSE LET k == CHOOSE i \in hits : \A j \in hits : i <= j
             IN  SubSeq(line, 1, k - 1) \o SubSeq(line, k + Len(mark), Len(line))

\* ------------------------------------------------------------------------
\* parseSseEvent: one extracted block -> {event, data}
\* ------------------------------------------------------------------------
RECURSIVE ScanLines(_, _, _)
ScanLines(lines, eventName, dataLines) ==
    IF lines = <<>> THEN [event |-> eventName, data |-> JoinLines(dataLines)]
    ELSE LET line == Head(lines)
         IN  IF StartsWith(line, EVENT_MARK)
             THEN ScanLines(Tail(lines), Trim(ReplaceFirst(line, EVENT_MARK)), dataLines)
             ELSE IF StartsWith(line, DATA_MARK)
             THEN ScanLines(Tail(lines), eventName,
                            Append(dataLines, Trim(ReplaceFirst(line, DATA_MARK))))
             ELSE ScanLines(Tail(lines), eventName, dataLines)

parseSseEventBad(chunk) == ScanLines(SplitLines(chunk), <<>>, <<>>)

\* const lines = chunk.split('\n'): the chunk is split once
parseSseEvent(chunk) ==
    CHOOSE frame \in {ScanLines(lines, DEFAULT_EVENT, <<>>) : lines \in {SplitLines(chunk)}} :
       TRUE

\* ------------------------------------------------------------------------
\* The framing part of the read loop: take complete blocks off the buffer
\* ------------------------------------------------------------------------
\* one turn of `while (boundary !== -1)`: the trimmed block and the rest
RawEvent(buffer) == Trim(Slice(buffer, 0, IndexOfBoundary(buffer)))

RestBuffer(buffer) == SliceFrom(buffer, IndexOfBoundary(buffer) + 2)

\* all frames a buffer yields (empty blocks skipped), with what stays behind
RECURSIVE Drain(_, _)
Drain(buffer, frames) ==
    IF IndexOfBoundary(buffer) = -1 THEN [frames |-> frames, buffer |-> buffer]
    ELSE IF RawEvent(buffer) = <<>> THEN Drain(RestBuffer(buffer), frames)
    ELSE Drain(RestBuffer(buffer), Append(frames, parseSseEvent(RawEvent(buffer))))

\* `buffer += decoder.decode(value, {stream: true})`
AppendChunkBad(buffer, chunk) == chunk

AppendChunk(buffer, chunk) == buffer \o chunk

\* ------------------------------------------------------------------------
\* Wire text used by the specifications
\* ------------------------------------------------------------------------
Q == "\""

\* {"id":"<c>"}
IdJson(c) == <<"{", Q, "i", "d", Q, ":", Q>> \o c \o <<Q, "}">>

\* {"message":"<m>"}
MessageJson(m) == <<"{", Q, "m", "e", "s", "s", "a", "g", "e", Q, ":", Q>> \o m \o <<Q, "}">>

\* event: <name>\ndata: <payload>\n\n
FrameText(name, payload) ==
    EVENT_MARK \o <<" ">> \o name \o <<NL>> \o DATA_MARK \o <<" ">> \o payload \o <<NL, NL>>

\* the two chunks of the split-event scenario
ScenarioA1 == EVENT_MARK \o <<" ", "r", "e", "s", "u">>

ScenarioA2 == <<"l", "t", NL>> \o DATA_MARK \o <<" ">> \o IdJson(<<"1">>) \o <<NL, NL>>

\* blocks the framer specification builds its streams from
Blocks ==
    { FrameText(EV_RESULT, IdJson(<<"1">>)),
      FrameText(EV_DONE, <<Q, Q>>),
      DATA_MARK \o <<" ", "x", NL, NL>>,
      DATA_MARK \o <<"a", NL>> \o DATA_MARK \o <<"b", NL, NL>>,
      <<NL>>,
      DATA_MARK \o <<"a", NL>> \o EVENT_MARK \o <<" ", "p", NL>>,
      EVENT_MARK \o <<"e", " ">> }

MaxBlocks == 2

MaxChunks == 2

RECURSIVE StreamsOf(_)
StreamsOf(n) ==
    IF n = 0 THEN {<<>>}
    ELSE StreamsOf(n - 1) \cup {s \o b : s \in StreamsOf(n - 1), b \in Blocks}

\* every way of cutting text into exactly n consecutive chunks
RECURSIVE SplitsOf(_, _)
SplitsOf(text, n) ==
    IF n = 1 THEN {<<text>>}
    ELSE UNION {{<<SubSeq(text, 1, k)>> \o rest :
                    rest \in SplitsOf(SubSeq(text, k + 1, Len(text)), n - 1)} :
                k \in 0..Len(text)}

\* ------------------------------------------------------------------------
\* JSON.parse, for the payload shapes of the generation stream:
\*   {}   {"id":"<text>"}   {"message":"<text>"}   (<text> without quotes)
\* and a SyntaxError for anything else.  The specifications only put
\* payloads on the wire that are of these shapes or are not JSON at all.
\* ------------------------------------------------------------------------
Undefined == <<"(undefined)">>

IdPrefix == <<"{", Q, "i", "d", Q, ":", Q>>

MessagePrefix == <<"{", Q, "m", "e", "s", "s", "a", "g", "e", Q, ":", Q>>

ObjectSuffix == <<Q, "}">>

\* the text between prefix and the closing "} , when data has that shape
HasMember(data, prefix) ==
    /\ StartsWith(data, prefix)
    /\ Len(data) >= Len(prefix) + 2
    /\ SubSeq(data, Len(data) - 1, Len(data)) = ObjectSuffix
    /\ \A i \in (Len(prefix) + 1)..(Len(data) - 2) : data[i] \notin {Q, "\\", NL}

MemberText(data, prefix) == SubSeq(data, Len(prefix) + 1, Len(data) - 2)

JsonParse(data) ==
    IF data = <<"{", "}">>
    THEN [ok |-> TRUE, id |-> Undefined, message |-> Undefined]
    ELSE IF HasMember(data, IdPrefix)
    THEN [ok |-> TRUE, id |-> MemberText(data, IdPrefix), message |-> Undefined]
    ELSE IF HasMember(data, MessagePrefix)
    THEN [ok |-> TRUE, id |-> Undefined, message |-> MemberText(data, MessagePrefix)]
    ELSE [ok |-> FALSE, id |-> Undefined, message |-> Undefined]

\* ------------------------------------------------------------------------
\* The project record and its controlled mutations (project provider)
\* ------------------------------------------------------------------------
NoError == <<"(null)">>

MAX_RESULTS == 12

Max(a, b) == IF a >= b THEN a ELSE b

\* Array.prototype.slice(-n)
SliceLastBad(s, n) == IF Len(s) <= n THEN s ELSE SubSeq(s, 1, n)

SliceLast(s, n) == IF Len(s) <= n THEN s ELSE SubSeq(s, Len(s) - n + 1, Len(s))

\* createDefaultWorkspaceProject(); selection is <<>> for undefined, or
\* <<rectangle>>
createDefaultWorkspaceProject ==
    [ id               |-> "local-project",
      name             |-> "Untitled project",
      prompt           |-> "",
      slideImage       |-> FALSE,
      selection        |-> <<>>,
      results          |-> <<>>,
      generationStatus |-> "idle",
      generationError  |-> NoError,
      pendingSlots     |-> 0 ]

\* updateProject(updates), for the updates the workspace makes
UpdateSlideImage(p, present) == [p EXCEPT !.slideImage = present]

ClearResultsOf(p) ==
    [p EXCEPT !.results = <<>>, !.pendingSlots = 0,
              !.generationStatus = "idle", !.generationError = NoError]

\* appendGenerationResults(results)
appendGenerationResultsBad(p, rs) ==
    [p EXCEPT !.results = SliceLast(p.results \o rs, MAX_RESULTS),
              !.generationError = NoError,
              !.pendingSlots = p.pendingSlots - Len(rs)]

appendGenerationResults(p, rs) ==
    [p EXCEPT !.results = SliceLast(p.results \o rs, MAX_RESULTS),
              !.generationError = NoError,
              !.pendingSlots = Max(p.pendingSlots - Len(rs), 0)]

\* setGenerationState(state, error = null)
setGenerationState(p, state, error) ==
    [p EXCEPT !.generationStatus = state, !.generationError = error]

\* setPendingSlots(count)
setPendingSlots(p, count) == [p EXCEPT !.pendingSlots = count]

\* ------------------------------------------------------------------------
\* handleGenerate: what each branch does to the project
\* ------------------------------------------------------------------------
\* lines 69-71: the start of a session
OnStartBad(p, variantCount) == setGenerationState(p, "generating", NoError)

OnStart(p, variantCount) ==
    setPendingSlots(setGenerationState(p, "generating", NoError), variantCount)

\* lines 75-80: no credential
OnNoTokenBad(p) == setGenerationState(p, "error", <<"Authentication required.">>)

OnNoToken(p) ==
    setPendingSlots(setGenerationState(p, "error", <<"Authentication required.">>), 0)

\* lines 123-138: a result frame whose payload decoded
OnResultFrame(p, payload) == appendGenerationResults(p, <<payload.id>>)

\* lines 139-145: an error frame whose payload decoded
ErrorMessageOf(payload) ==
    IF payload.message = Undefined \/ payload.message = <<>>
    THEN <<"Unknown error">>
    ELSE payload.message

OnErrorFrame(p, payload) == setGenerationState(p, "error", ErrorMessageOf(payload))

\* lines 146-150: a done frame
OnDoneFrame(p) == setPendingSlots(setGenerationState(p, "idle", NoError), 0)

\* lines 154-155: the read loop left because the stream ended
OnStreamEndBad(p) == setPendingSlots(p, 0)

OnStreamEnd(p) == setPendingSlots(setGenerationState(p, "idle", NoError), 0)

\* a catch block without setPendingSlots(0)
OnCatchBad(p, message) == setGenerationState(p, "error", message)

\* lines 156-161: anything thrown inside the try block
OnCatch(p, message) == setPendingSlots(setGenerationState(p, "error", message), 0)

\* ------------------------------------------------------------------------
\* State
\* ------------------------------------------------------------------------
VARIABLES
    fStream, fChunks, fFed, fBuffer, fFrames,   \* the framer on its own
    mounted,      \* the provider and its sections are on screen
    authToken,    \* a credential is in local storage
    project,      \* the provider's React state
    cache,        \* local storage: <<>> or <<project>>
    fallback,     \* what hydrate loaded from the cache at mount
    hpc,          \* where hydrate is
    hdata,        \* the remote project payload hydrate holds
    formError,    \* the generate section's message
    sess,         \* the calls of handleGenerate that got past the credential
    sent,         \* frames the backend has put on the wire so far
    arrived,      \* history: the list at its last wholesale replacement, then every append
    arrivedBase,  \* history: length of arrived at that replacement
    dragState,    \* the selection overlay's gesture in progress
    released,     \* history: the selection as the drawing gesture just ended was released
    gestures,     \* history: presses on the overlay so far
    before,       \* history: the selection as it was before the press of the gesture in progress
    event,        \* history: the last event the overlay (or the Clear button) handled
    touch,        \* the device delivers several pointers at once (a touch screen)
    renames,      \* the calls of handleRename: where each is, the name it asked for
    upload,       \* handleSlideUpload's request to the remote store (isUploading)
    uploadError,  \* the control panel's upload message
    lastEdit,     \* history: the last edit the user asked for (field and value)
    edits,        \* history: edits asked for so far
    deletion,     \* handleDelete: idle, deleting (isDeleting), failed or deleted
    deleteError,  \* the delete dialog's message
    deletes,      \* history: calls of handleDelete so far
    marker,       \* the active-project marker is in local storage
    remoteRecord, \* the remote store holds the project
    remoteName    \* the name the remote store holds

framerVars == <<fStream, fChunks, fFed, fBuffer, fFrames>>

mainVars == <<mounted, authToken, project, cache, fallback, hpc, hdata, formError,
              sess, sent, arrived, arrivedBase>>

editorVars == <<dragState, released, gestures, before, event, touch>>

panelVars == <<renames, upload, uploadError, lastEdit, edits>>

headerVars == <<deletion, deleteError, deletes, marker, remoteRecord, remoteName>>

vars == <<framerVars, mainVars, editorVars, panelVars, headerVars>>

\* ------------------------------------------------------------------------
\* Bounds and input sets
\* ------------------------------------------------------------------------
\* calls of handleGenerate, and frames on the wire, in the whole workspace
MaxSessions == 2

MaxRaceSent == 2

\* frames on the wire when a single call of handleGenerate is followed
MaxSent == 3

MaxRemoteGenerations == 13

\* the choices of the "Number of visuals" select that the model tries
VariantCounts == {1, 3}

RemoteGenerationCounts == {0, MaxRemoteGenerations}

Sessions == 1..MaxSessions

\* ids: c<i> cached, g<i> remote, one letter for a streamed result
Digits == <<"1", "2", "3", "4", "5", "6", "7", "8", "9", "10", "11", "12", "13", "14", "15">>

Letters == <<"a", "b", "c", "d", "e", "f", "g", "h">>

CachedIds(n) == [i \in 1..n |-> <<"c", Digits[i]>>]

RemoteIds(n) == [i \in 1..n |-> <<"g", Digits[i]>>]

\* a project an earlier visit left in local storage, mid-session
CachedProject ==
    [ id               |-> "p1",
      name             |-> "Deck",
      prompt           |-> "a chart",
      slideImage       |-> TRUE,
      selection        |-> <<>>,
      results          |-> CachedIds(11),
      generationStatus |-> "generating",
      generationError  |-> NoError,
      pendingSlots     |-> 2 ]

InitialCaches == {<<>>, <<CachedProject>>}

\* a project whose last session ended in the catch block
CachedErrorProject ==
    [CachedProject EXCEPT !.generationStatus = "error",
                          !.generationError = <<"network error">>,
                          !.pendingSlots = 0]

\* text in local storage that JSON.parse rejects
CorruptRecord == [corrupt |-> TRUE]

ActivationCaches ==
    {<<>>, <<CachedProject>>, <<CachedErrorProject>>, <<CorruptRecord>>}

NoSession ==
    [ pc |-> "unused", reader |-> "none", buffer |-> <<>>, wire |-> <<>>,
      variant |-> 0, startLen |-> 0, got |-> 0, via |-> "none", left |-> FALSE ]

\* ------------------------------------------------------------------------
\* Local cache (workspace-storage.ts)
\* ------------------------------------------------------------------------
\* loadWorkspaceProject(): the stored record over the defaults; the defaults
\* when nothing is stored or JSON.parse throws
loadWorkspaceProject(c) ==
    IF c = <<>> THEN createDefaultWorkspaceProject
    ELSE IF "corrupt" \in DOMAIN c[1] THEN createDefaultWorkspaceProject
    ELSE c[1]

\* setProject + persistWorkspaceProject of a provider mutation; a torn-down
\* provider no longer applies updaters
Commit(p) ==
    IF mounted THEN project' = p /\ cache' = <<p>>
    ELSE UNCHANGED <<project, cache>>

\* the list was replaced wholesale
ResetArrived(rs) == arrived' = IF mounted THEN rs ELSE arrived

ResetBase(rs) == arrivedBase' = IF mounted THEN Len(rs) ELSE arrivedBase

\* ------------------------------------------------------------------------
\* Initial states
\* ------------------------------------------------------------------------
FramerIdle ==
    /\ fStream = <<>>
    /\ fChunks = <<>>
    /\ fFed = <<>>
    /\ fBuffer = <<>>
    /\ fFrames = <<>>

MainIdle ==
    /\ mounted = FALSE
    /\ authToken = FALSE
    /\ project = createDefaultWorkspaceProject
    /\ cache = <<>>
    /\ fallback = createDefaultWorkspaceProject
    /\ hpc = "done"
    /\ hdata = [gens |-> 0, slide |-> FALSE]
    /\ formError = "null"
    /\ sess = [s \in Sessions |-> NoSession]
    /\ sent = MaxSent
    /\ arrived = <<>>
    /\ arrivedBase = 0

\* the selection overlay as mounted: useState({type: 'none'})
NoDrag == [type |-> "none"]

NoEvent == [type |-> "none"]

EditorIdle ==
    /\ dragState = NoDrag
    /\ released = <<>>
    /\ gestures = 0
    /\ before = <<>>
    /\ event = NoEvent
    /\ touch = FALSE

\* the control panel as mounted: no rename asked for, nothing uploading
MaxRenames == 2

MaxEdits == 3

RenameCalls == 1..MaxRenames

NoRename == [pc |-> "idle"]

NoEdit == [field |-> "none"]

PanelIdle ==
    /\ renames = [r \in RenameCalls |-> NoRename]
    /\ upload = "idle"
    /\ uploadError = "null"
    /\ lastEdit = NoEdit
    /\ edits = 0

\* the workspace header as mounted, the project opened from the start page
HeaderIdle ==
    /\ deletion = "idle"
    /\ deleteError = "null"
    /\ deletes = 0
    /\ marker = TRUE
    /\ remoteRecord = TRUE
    /\ remoteName = "Remote deck"

\* the provider has just been constructed (useState initialisers ran)
Init ==
    /\ FramerIdle
    /\ EditorIdle
    /\ PanelIdle
    /\ HeaderIdle
    /\ mounted = TRUE
    /\ authToken \in BOOLEAN
    /\ project = createDefaultWorkspaceProject
    /\ cache \in InitialCaches
    /\ fallback = createDefaultWorkspaceProject
    /\ hpc = "start"
    /\ hdata = [gens |-> 0, slide |-> FALSE]
    /\ formError = "null"
    /\ sess = [s \in Sessions |-> NoSession]
    /\ sent = 0
    /\ arrived = <<>>
    /\ arrivedBase = 0

\* ------------------------------------------------------------------------
\* hydrate (the provider's mount effect)
\* ------------------------------------------------------------------------
\* {...fallback, generationStatus: 'idle', generationError: null}
ResetStateBad(fb) == fb

ResetState(fb) == [fb EXCEPT !.generationStatus = "idle", !.generationError = NoError]

\* the project built from the remote record
Hydrated(gens, slide) ==
    [ id               |-> "remote-1",
      name             |-> "Remote deck",
      prompt           |-> "remote prompt",
      slideImage       |-> slide,
      selection        |-> <<>>,
      results          |-> RemoteIds(gens),
      generationStatus |-> "idle",
      generationError  |-> NoError,
      pendingSlots     |-> 0 ]

\* setProject(value); persistWorkspaceProject(value); setIsHydrated(true)
HydrateFinishBad(p) ==
    /\ project' = IF mounted THEN p ELSE project
    /\ cache' = <<p>>
    /\ ResetArrived(p.results)
    /\ ResetBase(p.results)
    /\ hpc' = hpc
    /\ hdata' = [gens |-> 0, slide |-> FALSE]

HydrateFinish(p) ==
    /\ project' = IF mounted THEN p ELSE project
    /\ cache' = <<p>>
    /\ ResetArrived(p.results)
    /\ ResetBase(p.results)
    /\ hpc' = "done"
    /\ hdata' = [gens |-> 0, slide |-> FALSE]

NoFrameInHand == \A s \in Sessions : sess[s].pc # "framing"

\* lines 189-206: read the credential and the cache; without a credential
\* fall back at once
HydrateStart ==
    /\ hpc = "start"
    /\ fallback' = loadWorkspaceProject(cache)
    /\ IF authToken
       THEN /\ hpc' = "list"
            /\ UNCHANGED <<project, cache, arrived, arrivedBase, hdata>>
       ELSE HydrateFinish(ResetState(loadWorkspaceProject(cache)))
    /\ UNCHANGED <<framerVars, headerVars, panelVars, editorVars, mounted, authToken, formError, sess,
                   sent>>

\* lines 208-234: the project list answers
HydrateList(outcome) ==
    /\ hpc = "list"
    /\ NoFrameInHand
    /\ IF outcome = "projects"
       THEN /\ hpc' = "detail"
            /\ UNCHANGED <<project, cache, arrived, arrivedBase, hdata>>
       ELSE HydrateFinish(ResetState(fallback))
    /\ UNCHANGED <<framerVars, headerVars, panelVars, editorVars, mounted, authToken, fallback,
                   formError, sess, sent>>

\* lines 236-264: the project detail answers
HydrateDetail(ok, gens, slide) ==
    /\ hpc = "detail"
    /\ NoFrameInHand
    /\ IF ok
       THEN /\ hpc' = "images"
            /\ hdata' = [gens |-> gens, slide |-> slide]
            /\ UNCHANGED <<project, cache, arrived, arrivedBase>>
       ELSE HydrateFinish(ResetState(fallback))
    /\ UNCHANGED <<framerVars, headerVars, panelVars, editorVars, mounted, authToken, fallback,
                   formError, sess, sent>>

\* lines 266-287: every generation image answered (Promise.all)
HydrateImages(ok) ==
    /\ hpc = "images"
    /\ NoFrameInHand
    /\ ok \/ hdata.gens > 0
    /\ IF ~ok THEN HydrateFinish(ResetState(fallback))
       ELSE IF hdata.slide
       THEN /\ hpc' = "slide"
            /\ UNCHANGED <<project, cache, arrived, arrivedBase, hdata>>
       ELSE HydrateFinish(Hydrated(hdata.gens, FALSE))
    /\ UNCHANGED <<framerVars, headerVars, panelVars, editorVars, mounted, authToken, fallback,
                   formError, sess, sent>>

\* lines 289-329: the slide image answered, or failed and was ignored
HydrateSlide(ok) ==
    /\ hpc = "slide"
    /\ NoFrameInHand
    /\ HydrateFinish(Hydrated(hdata.gens, ok))
    /\ UNCHANGED <<framerVars, headerVars, panelVars, editorVars, mounted, authToken, fallback,
                   formError, sess, sent>>

\* ------------------------------------------------------------------------
\* The user
\* ------------------------------------------------------------------------
UserCanAct == mounted /\ hpc # "start" /\ NoFrameInHand

\* control-panel.tsx handleSlideUpload: updateProject({slideImage: dataUrl})
SlideUpload ==
    /\ UserCanAct
    /\ Commit(UpdateSlideImage(project, TRUE))
    /\ UNCHANGED <<framerVars, headerVars, panelVars, editorVars, mounted, authToken, fallback, hpc,
                   hdata, formError,
                   sess, sent, arrived, arrivedBase>>

\* control-panel.tsx handleSlideClear: updateProject({slideImage: undefined})
SlideClear ==
    /\ UserCanAct
    /\ project.slideImage
    /\ Commit(UpdateSlideImage(project, FALSE))
    /\ UNCHANGED <<framerVars, headerVars, panelVars, editorVars, mounted, authToken, fallback, hpc,
                   hdata, formError,
                   sess, sent, arrived, arrivedBase>>

\* generated-results-section.tsx: the Clear results button
\* (disabled while generationStatus is 'generating')
ClearResults ==
    /\ UserCanAct
    /\ project.generationStatus # "generating"
    /\ Commit(ClearResultsOf(project))
    /\ ResetArrived(<<>>)
    /\ ResetBase(<<>>)
    /\ UNCHANGED <<framerVars, headerVars, panelVars, editorVars, mounted, authToken, fallback, hpc,
                   hdata, formError,
                   sess, sent>>

\* the workspace is left (Back, or any navigation): nothing is cancelled
Unmount ==
    /\ UserCanAct
    /\ mounted' = FALSE
    /\ UNCHANGED <<framerVars, headerVars, panelVars, editorVars, authToken, project, cache, fallback,
                   hpc, hdata,
                   formError, sess, sent, arrived, arrivedBase>>

\* ------------------------------------------------------------------------
\* handleGenerate
\* ------------------------------------------------------------------------
FreeSession(s) ==
    /\ sess[s].pc = "unused"
    /\ \A t \in Sessions : t < s => sess[t].pc # "unused"

\* where the read loop goes after a frame that did not end the session
LoopPc(buffer) == IF IndexOfBoundary(buffer) # -1 THEN "framing" ELSE "reading"

\* handleGenerate has returned: its locals (buffer, decoder) are gone; what
\* stays is the reader, how the call ended, and whether complete frames were
\* still in the buffer
Ended(session, via, reader, rest) ==
    [NoSession EXCEPT !.pc = "ended", !.via = via, !.reader = reader,
                      !.left = (IndexOfBoundary(rest) # -1)]

\* a done or error frame has been handled: reader.cancel(); return
AfterTerminalBad(session, via, rest) ==
    [session EXCEPT !.buffer = rest, !.pc = LoopPc(rest), !.reader = "cancelled",
                    !.via = via]

AfterTerminal(session, via, rest) == Ended(session, via, "cancelled", rest)

\* the Generate button (disabled while generationStatus is 'generating'),
\* lines 63-82: validation, start of the session, credential check, request
Generate(variantCount, s) ==
    /\ UserCanAct
    /\ project.generationStatus # "generating"
    /\ IF ~project.slideImage
       THEN /\ formError' = "Upload a slide screenshot first."
            /\ UNCHANGED <<project, cache, sess>>
       ELSE IF ~authToken
       THEN /\ formError' = "Please log in to generate visuals."
            /\ Commit(OnNoToken(OnStart(project, variantCount)))
            /\ UNCHANGED sess
       ELSE /\ FreeSession(s)
            /\ formError' = "null"
            /\ Commit(OnStart(project, variantCount))
            /\ sess' = [sess EXCEPT ![s] =
                          [NoSession EXCEPT !.pc = "requesting",
                                            !.variant = variantCount,
                                            !.startLen = Len(project.results)]]
    /\ UNCHANGED <<framerVars, headerVars, panelVars, editorVars, mounted, authToken, fallback, hpc,
                   hdata, sent,
                   arrived, arrivedBase>>

\* the catch block, lines 156-161
Catch(s, message, via, reader) ==
    /\ Commit(OnCatch(project, message))
    /\ formError' = IF mounted THEN "Unable to generate visuals" ELSE formError
    /\ sess' = [sess EXCEPT ![s] = Ended(sess[s], via, reader, <<>>)]

\* lines 82-104: the generate request answers
Respond(s, outcome) ==
    /\ sess[s].pc = "requesting"
    /\ NoFrameInHand
    /\ CASE outcome = "stream" ->
              /\ sess' = [sess EXCEPT ![s].pc = "reading", ![s].reader = "open"]
              /\ UNCHANGED <<project, cache, formError>>
         [] outcome = "refused" ->
              Catch(s, <<"Request failed">>, "refused", "none")
    /\ UNCHANGED <<framerVars, headerVars, panelVars, editorVars, mounted, authToken, fallback, hpc,
                   hdata, sent,
                   arrived, arrivedBase>>

\* what the backend may put on the wire in one go
ResultFrame(n) == FrameText(EV_RESULT, IdJson(<<Letters[n]>>))

WireTexts(n) ==
    { ResultFrame(n),
      FrameText(EV_ERROR, MessageJson(<<"t", "i", "m", "e", "o", "u", "t">>)),
      FrameText(EV_ERROR, MessageJson(<<>>)),
      FrameText(EV_DONE, <<Q, Q>>),
      FrameText(<<"p", "i", "n", "g">>, <<"{", "}">>),
      DATA_MARK \o <<" ", "{", "}", NL, NL>>,
      FrameText(EV_RESULT, <<"{", Q, "i", "d">>),
      FrameText(EV_RESULT, <<"{", Q, "i", "d">>) \o ResultFrame(n),
      FrameText(EV_DONE, <<Q, Q>>) \o ResultFrame(n),
      FrameText(EV_ERROR, MessageJson(<<"t", "i", "m", "e", "o", "u", "t">>)) \o ResultFrame(n) }

\* where the network may cut a text into two chunks (0: not at all)
Cuts == {0, 11}

\* lines 108-114: reader.read() resolves with a chunk
ReadChunk(s, text, cut, budget) ==
    /\ sess[s].pc = "reading"
    /\ NoFrameInHand
    /\ IF sess[s].wire # <<>>
       THEN /\ text = sess[s].wire
            /\ cut = 0
            /\ UNCHANGED sent
       ELSE /\ sent < budget
            /\ text \in WireTexts(sent + 1)
            /\ cut < Len(text)
            /\ sent' = sent + 1
    /\ LET chunk  == IF cut = 0 THEN text ELSE SubSeq(text, 1, cut)
           rest   == IF cut = 0 THEN <<>> ELSE SubSeq(text, cut + 1, Len(text))
           buffer == AppendChunk(sess[s].buffer, chunk)
       IN  sess' = [sess EXCEPT ![s].buffer = buffer, ![s].wire = rest,
                                ![s].pc = LoopPc(buffer)]
    /\ UNCHANGED <<framerVars, headerVars, panelVars, editorVars, mounted, authToken, project, cache,
                   fallback, hpc,
                   hdata, formError, arrived, arrivedBase>>

\* lines 109-111 and 154-155: reader.read() resolves with done
StreamEnd(s) ==
    /\ sess[s].pc = "reading"
    /\ NoFrameInHand
    /\ sess[s].wire = <<>>
    /\ Commit(OnStreamEnd(project))
    /\ sess' = [sess EXCEPT ![s] = Ended(sess[s], "close", "closed", <<>>)]
    /\ UNCHANGED <<framerVars, headerVars, panelVars, editorVars, mounted, authToken, fallback, hpc,
                   hdata, formError,
                   sent, arrived, arrivedBase>>

\* line 109 throws: the connection failed
ReadFault(s) ==
    /\ sess[s].pc = "reading"
    /\ NoFrameInHand
    /\ Catch(s, <<"network error">>, "fault", "errored")
    /\ UNCHANGED <<framerVars, headerVars, panelVars, editorVars, mounted, authToken, fallback, hpc,
                   hdata, sent,
                   arrived, arrivedBase>>

\* the kind of a frame, as the dispatch at lines 123-151 sees it
KindOfBad(frame) ==
    IF frame.event = EV_ERROR THEN "error"
    ELSE IF frame.event = EV_DONE THEN "done"
    ELSE "result"

KindOf(frame) ==
    IF frame.event = EV_RESULT THEN "result"
    ELSE IF frame.event = EV_ERROR THEN "error"
    ELSE IF frame.event = EV_DONE THEN "done"
    ELSE "other"

\* lines 115-152: one turn of the inner loop
HandleFrame(s) ==
    /\ sess[s].pc = "framing"
    /\ \E raw \in {RawEvent(sess[s].buffer)}, rest \in {RestBuffer(sess[s].buffer)} :
       \E frame \in {parseSseEvent(raw)} :
       \E kind \in {KindOf(frame)}, payload \in {JsonParse(frame.data)} :
           IF raw = <<>>
           THEN /\ sess' = [sess EXCEPT ![s].buffer = rest, ![s].pc = LoopPc(rest)]
                /\ UNCHANGED <<project, cache, formError, arrived>>
           ELSE IF kind = "other"
           THEN /\ sess' = [sess EXCEPT ![s].buffer = rest, ![s].pc = LoopPc(rest)]
                /\ UNCHANGED <<project, cache, formError, arrived>>
           ELSE IF kind = "done"
           THEN /\ Commit(OnDoneFrame(project))
                /\ sess' = [sess EXCEPT ![s] = AfterTerminal(sess[s], "done", rest)]
                /\ UNCHANGED <<formError, arrived>>
           ELSE IF ~payload.ok
           THEN /\ Commit(OnCatch(project, <<"SyntaxError">>))
                /\ formError' = IF mounted THEN "Unable to generate visuals" ELSE formError
                /\ sess' = [sess EXCEPT ![s] = Ended(sess[s], "throw", sess[s].reader, rest)]
                /\ UNCHANGED arrived
           ELSE IF kind = "error"
           THEN /\ Commit(OnErrorFrame(project, payload))
                /\ formError' = IF mounted THEN "Unable to generate visuals" ELSE formError
                /\ sess' = [sess EXCEPT ![s] = AfterTerminal(sess[s], "error", rest)]
                /\ UNCHANGED arrived
           ELSE /\ Commit(OnResultFrame(project, payload))
                /\ arrived' = IF mounted THEN Append(arrived, payload.id) ELSE arrived
                /\ sess' = [sess EXCEPT ![s].buffer = rest, ![s].pc = LoopPc(rest),
                                        ![s].got = sess[s].got + 1]
                /\ UNCHANGED formError
    /\ UNCHANGED <<framerVars, headerVars, panelVars, editorVars, mounted, authToken, fallback, hpc,
                   hdata, sent, arrivedBase>>

\* ------------------------------------------------------------------------
\* The workspace: activation, the user, the generation sessions
\* ------------------------------------------------------------------------
Hydrate ==
    \/ HydrateStart
    \/ \E o \in {"failed", "empty", "projects"} : HydrateList(o)
    \/ \E ok \in BOOLEAN, g \in RemoteGenerationCounts, sl \in BOOLEAN : HydrateDetail(ok, g, sl)
    \/ \E ok \in BOOLEAN : HydrateImages(ok)
    \/ \E ok \in BOOLEAN : HydrateSlide(ok)

User ==
    \/ SlideUpload
    \/ SlideClear
    \/ ClearResults
    \/ Unmount

\* the generation sessions, with at most k calls of handleGenerate and at
\* most budget frames on the wire
Generation(k, budget) ==
    \/ \E n \in VariantCounts, s \in 1..k : Generate(n, s)
    \/ \E s \in 1..k, o \in {"stream", "refused"} : Respond(s, o)
    \/ \E s \in 1..k, c \in Cuts :
          \E t \in WireTexts(sent + 1) \cup {sess[s].wire} : ReadChunk(s, t, c, budget)
    \/ \E s \in 1..k : StreamEnd(s)
    \/ \E s \in 1..k : ReadFault(s)
    \/ \E s \in 1..k : HandleFrame(s)

Next == Hydrate \/ User \/ Generation(MaxSessions, MaxRaceSent)

NextSession == Hydrate \/ User \/ Generation(1, MaxSent)

\* what a started call of handleGenerate does next: the request answers, the
\* reader delivers a chunk, closes or fails, or the loop handles a frame
SessionStep(k, budget) ==
    \/ \E s \in 1..k, o \in {"stream", "refused"} : Respond(s, o)
    \/ \E s \in 1..k, c \in Cuts :
          \E t \in WireTexts(sent + 1) \cup {sess[s].wire} : ReadChunk(s, t, c, budget)
    \/ \E s \in 1..k : StreamEnd(s)
    \/ \E s \in 1..k : ReadFault(s)
    \/ \E s \in 1..k : HandleFrame(s)

\* the whole workspace
Spec == Init /\ [][Next]_vars

\* the workspace in which handleGenerate gets past its checks once
SpecSession == Init /\ [][NextSession]_vars

\* ------------------------------------------------------------------------
\* The framer on its own: a stream, cut into chunks in every way
\* ------------------------------------------------------------------------
FramerInit ==
    /\ MainIdle
    /\ EditorIdle
    /\ PanelIdle
    /\ HeaderIdle
    /\ fStream \in StreamsOf(MaxBlocks)
    /\ fChunks \in UNION {SplitsOf(fStream, n) : n \in 1..MaxChunks}
    /\ fFed = <<>>
    /\ fBuffer = <<>>
    /\ fFrames = <<>>

\* one turn of the read loop, framing only: append the chunk, drain the buffer
FramerRead ==
    /\ fChunks # <<>>
    /\ LET d == Drain(AppendChunk(fBuffer, Head(fChunks)), fFrames)
       IN  /\ fBuffer' = d.buffer
           /\ fFrames' = d.frames
    /\ fFed' = Append(fFed, Head(fChunks))
    /\ fChunks' = Tail(fChunks)
    /\ UNCHANGED <<fStream, mainVars, editorVars, panelVars, headerVars>>

FramerNext == FramerRead

SpecFramer == FramerInit /\ [][FramerNext]_vars

\* ------------------------------------------------------------------------
\* One session as the backend means it: variantCount results, then done
\* ------------------------------------------------------------------------
MAX_VARIANTS == 5

DoneFrame == FrameText(EV_DONE, <<Q, Q>>)

\* the workspace has been activated from a remote project with k results
ScenarioInit ==
    /\ FramerIdle
    /\ EditorIdle
    /\ PanelIdle
    /\ HeaderIdle
    /\ mounted = TRUE
    /\ authToken = TRUE
    /\ \E k \in 0..MAX_RESULTS :
          /\ project = Hydrated(k, TRUE)
          /\ cache = <<Hydrated(k, TRUE)>>
          /\ arrived = RemoteIds(k)
          /\ arrivedBase = k
    /\ fallback = createDefaultWorkspaceProject
    /\ hpc = "done"
    /\ hdata = [gens |-> 0, slide |-> FALSE]
    /\ formError = "null"
    /\ sess = [s \in Sessions |-> NoSession]
    /\ sent = 0

ScriptText == IF sent < sess[1].variant THEN ResultFrame(sent + 1) ELSE DoneFrame

ScenarioNext ==
    \/ \E n \in 1..MAX_VARIANTS : Generate(n, 1)
    \/ Respond(1, "stream")
    \/ \E c \in Cuts :
          \E t \in {ScriptText, sess[1].wire} : ReadChunk(1, t, c, sess[1].variant + 1)
    \/ HandleFrame(1)

SpecScenario == ScenarioInit /\ [][ScenarioNext]_vars

\* ------------------------------------------------------------------------
\* One session over any transport, with a transport that keeps answering and
\* an event loop that keeps running the continuation of every await
\* ------------------------------------------------------------------------
MaxLiveSent == 2

LiveInit == ScenarioInit /\ project.results = <<>>

NextLive == Unmount \/ Generation(1, MaxLiveSent)

SpecLive ==
    LiveInit /\ [][NextLive]_vars /\ WF_vars(SessionStep(1, MaxLiveSent))

\* ------------------------------------------------------------------------
\* The selection overlay (WorkspaceSelectionOverlay) and the Clear selection
\* button.  A mouse has one pointer, so a press is only possible with no
\* gesture in progress; on a touch screen a second finger can press meanwhile.
\* ------------------------------------------------------------------------
MIN_SIZE == 20

\* presses on the overlay that the selection specification follows
MaxGestures == 3

\* the overlay's size (getBoundingClientRect / clientWidth, clientHeight)
SurfaceWidth == 60

SurfaceHeight == 40

\* pointer positions relative to the overlay's corner, also outside of it
ClientXs == {-5, 10, 15, 65}

ClientYs == {10, 12, 35}

Min(a, b) == IF a <= b THEN a ELSE b

Abs(a) == IF a >= 0 THEN a ELSE 0 - a

\* getRelativePoint: clamp into the overlay
RelativeX(cx) == Min(Max(0, cx), SurfaceWidth)

RelativeY(cy) == Min(Max(0, cy), SurfaceHeight)

Rect(x, y, width, height) ==
    [x |-> x, y |-> y, width |-> width, height |-> height, ratio |-> "custom"]

normalizeSelection(startX, startY, x, y) ==
    Rect(Min(startX, x), Min(startY, y), Abs(x - startX), Abs(y - startY))

\* updateSelection(selection): <<>> for undefined
updateSelection(p, selection) == [p EXCEPT !.selection = selection]

ResizeHandles ==
    {"top-left", "top-right", "bottom-left", "bottom-right", "top", "bottom", "left", "right"}

\* handle.includes(side)
Includes(handle, side) ==
    CASE side = "left"   -> handle \in {"top-left", "bottom-left", "left"}
      [] side = "right"  -> handle \in {"top-right", "bottom-right", "right"}
      [] side = "top"    -> handle \in {"top-left", "top-right", "top"}
      [] side = "bottom" -> handle \in {"bottom-left", "bottom-right", "bottom"}

\* the selection's body (a box of the selection's size) is under the pointer
OnBody(p, x, y) ==
    /\ p.selection # <<>>
    /\ p.selection[1].width > 0 /\ p.selection[1].height > 0
    /\ p.selection[1].x <= x /\ x <= p.selection[1].x + p.selection[1].width
    /\ p.selection[1].y <= y /\ y <= p.selection[1].y + p.selection[1].height

\* lines 67-75: the rectangle of a move gesture
MovedRect(initial, startX, startY, x, y) ==
    [initial EXCEPT
        !.x = Min(Max(0, initial.x + (x - startX)), SurfaceWidth - initial.width),
        !.y = Min(Max(0, initial.y + (y - startY)), SurfaceHeight - initial.height)]

\* lines 76-112: the rectangle of a resize gesture
ResizedRect(initial, handle, relativeX, relativeY) ==
    LET newLeft   == Min(relativeX, initial.x + initial.width - MIN_SIZE)
        newRight  == Max(relativeX, initial.x + MIN_SIZE)
        newTop    == Min(relativeY, initial.y + initial.height - MIN_SIZE)
        newBottom == Max(relativeY, initial.y + MIN_SIZE)
        width1    == IF Includes(handle, "left")
                     THEN initial.x + initial.width - newLeft ELSE initial.width
        nextX     == IF Includes(handle, "left") THEN newLeft ELSE initial.x
        nextWidth == IF Includes(handle, "right")
                     THEN Min(newRight - initial.x, SurfaceWidth - initial.x) ELSE width1
        height1   == IF Includes(handle, "top")
                     THEN initial.y + initial.height - newTop ELSE initial.height
        nextY     == IF Includes(handle, "top") THEN newTop ELSE initial.y
        nextHeight == IF Includes(handle, "bottom")
                      THEN Min(newBottom - initial.y, SurfaceHeight - initial.y) ELSE height1
    IN  Rect(nextX, nextY, Max(MIN_SIZE, nextWidth), Max(MIN_SIZE, nextHeight))

\* a pointer that is not down yet exists
CanPress == dragState.type = "none" \/ touch

\* handlePointerDown (a press on the overlay, not on the selection's body)
PointerDown(cx, cy) ==
    /\ UserCanAct
    /\ CanPress
    /\ gestures < MaxGestures
    /\ gestures' = gestures + 1
    /\ ~OnBody(project, RelativeX(cx), RelativeY(cy))
    /\ dragState' = [type |-> "drawing", originX |-> RelativeX(cx), originY |-> RelativeY(cy)]
    /\ Commit(updateSelection(project, <<Rect(RelativeX(cx), RelativeY(cy), 0, 0)>>))
    /\ before' = project.selection
    /\ released' = <<>>
    /\ event' = [type |-> "down", target |-> "overlay",
                 x |-> RelativeX(cx), y |-> RelativeY(cy)]
    /\ UNCHANGED <<framerVars, headerVars, panelVars, touch, mounted, authToken, fallback, hpc, hdata,
                   formError, sess, sent, arrived, arrivedBase>>

\* startMove without stopPropagation: handlePointerDown runs after it
StartMoveBad(cx, cy) ==
    /\ UserCanAct
    /\ CanPress
    /\ gestures < MaxGestures
    /\ gestures' = gestures + 1
    /\ OnBody(project, RelativeX(cx), RelativeY(cy))
    /\ dragState' = [type |-> "drawing", originX |-> RelativeX(cx), originY |-> RelativeY(cy)]
    /\ Commit(updateSelection(project, <<Rect(RelativeX(cx), RelativeY(cy), 0, 0)>>))
    /\ before' = project.selection
    /\ released' = <<>>
    /\ event' = [type |-> "down", target |-> "body",
                 x |-> RelativeX(cx), y |-> RelativeY(cy)]
    /\ UNCHANGED <<framerVars, headerVars, panelVars, touch, mounted, authToken, fallback, hpc, hdata,
                   formError, sess, sent, arrived, arrivedBase>>

\* startMove (a press on the selection's body)
StartMove(cx, cy) ==
    /\ UserCanAct
    /\ CanPress
    /\ gestures < MaxGestures
    /\ gestures' = gestures + 1
    /\ OnBody(project, RelativeX(cx), RelativeY(cy))
    /\ dragState' = [type |-> "move", startX |-> RelativeX(cx), startY |-> RelativeY(cy),
                     initial |-> project.selection[1]]
    /\ before' = project.selection
    /\ released' = <<>>
    /\ event' = [type |-> "down", target |-> "body",
                 x |-> RelativeX(cx), y |-> RelativeY(cy)]
    /\ UNCHANGED <<framerVars, headerVars, panelVars, touch, mainVars>>

\* startResize (a press on one of the eight handles)
StartResize(handle) ==
    /\ UserCanAct
    /\ CanPress
    /\ gestures < MaxGestures
    /\ gestures' = gestures + 1
    /\ project.selection # <<>>
    /\ dragState' = [type |-> "resize", handle |-> handle, initial |-> project.selection[1]]
    /\ before' = project.selection
    /\ released' = <<>>
    /\ event' = [type |-> "down", target |-> handle]
    /\ UNCHANGED <<framerVars, headerVars, panelVars, touch, mainVars>>

\* handlePointerMove
PointerMove(cx, cy) ==
    /\ UserCanAct
    /\ dragState.type # "none"
    /\ LET x == RelativeX(cx)
           y == RelativeY(cy)
       IN  CASE dragState.type = "drawing" ->
                  Commit(updateSelection(project,
                      <<normalizeSelection(dragState.originX, dragState.originY, x, y)>>))
             [] dragState.type = "move" /\ project.selection # <<>> ->
                  Commit(updateSelection(project,
                      <<MovedRect(dragState.initial, dragState.startX, dragState.startY, x, y)>>))
             [] dragState.type = "resize" /\ project.selection # <<>> ->
                  Commit(updateSelection(project,
                      <<ResizedRect(dragState.initial, dragState.handle, x, y)>>))
             [] OTHER -> UNCHANGED <<project, cache>>
    /\ event' = [type |-> "move", x |-> RelativeX(cx), y |-> RelativeY(cy)]
    /\ UNCHANGED <<framerVars, headerVars, panelVars, dragState, released, gestures, before, touch,
                   mounted,
                   authToken, fallback, hpc, hdata, formError, sess, sent, arrived,
                   arrivedBase>>

\* line 119: width < MIN_SIZE || height < MIN_SIZE
TooSmallBad(rect) == rect.width < MIN_SIZE /\ rect.height < MIN_SIZE

TooSmall(rect) == rect.width < MIN_SIZE \/ rect.height < MIN_SIZE

\* handlePointerUp
HandlePointerUp ==
    /\ UserCanAct
    /\ dragState.type # "none"
    /\ IF /\ dragState.type = "drawing"
          /\ project.selection # <<>>
          /\ TooSmall(project.selection[1])
       THEN Commit(updateSelection(project, <<>>))
       ELSE UNCHANGED <<project, cache>>
    /\ dragState' = NoDrag
    /\ released' = IF dragState.type = "drawing" THEN project.selection ELSE released
    /\ before' = <<>>
    /\ UNCHANGED <<framerVars, headerVars, panelVars, gestures, touch, mounted, authToken, fallback,
                   hpc, hdata,
                   formError, sess, sent, arrived, arrivedBase>>

\* onPointerUp={handlePointerUp}
PointerUp == HandlePointerUp /\ event' = [type |-> "up"]

\* a leave handler that ends the gesture but never discards
PointerLeaveBad ==
    /\ UserCanAct
    /\ dragState.type # "none"
    /\ dragState' = NoDrag
    /\ released' = IF dragState.type = "drawing" THEN project.selection ELSE released
    /\ before' = <<>>
    /\ event' = [type |-> "leave"]
    /\ UNCHANGED <<framerVars, headerVars, panelVars, gestures, touch, mainVars>>

\* onPointerLeave={handlePointerUp}
PointerLeave == HandlePointerUp /\ event' = [type |-> "leave"]

\* a Clear button that is also disabled while a gesture is in progress
ClearSelectionBad ==
    /\ UserCanAct
    /\ dragState.type = "none"
    /\ project.selection # <<>>
    /\ Commit(updateSelection(project, <<>>))
    /\ event' = [type |-> "clear"]
    /\ UNCHANGED <<framerVars, headerVars, panelVars, dragState, released, gestures, before, touch,
                   mounted,
                   authToken, fallback, hpc, hdata, formError, sess, sent, arrived,
                   arrivedBase>>

\* the Clear selection button (disabled without a selection)
ClearSelection ==
    /\ UserCanAct
    /\ project.selection # <<>>
    /\ Commit(updateSelection(project, <<>>))
    /\ event' = [type |-> "clear"]
    /\ UNCHANGED <<framerVars, headerVars, panelVars, dragState, released, gestures, before, touch,
                   mounted,
                   authToken, fallback, hpc, hdata, formError, sess, sent, arrived,
                   arrivedBase>>

\* the page is loaded again while a gesture is in progress: the provider's
\* mount effect reads the cache, the overlay starts from {type: 'none'}
Reload ==
    /\ UserCanAct
    /\ dragState.type # "none"
    /\ project' = loadWorkspaceProject(cache)
    /\ dragState' = NoDrag
    /\ released' = <<>>
    /\ before' = <<>>
    /\ event' = [type |-> "reload"]
    /\ UNCHANGED <<framerVars, headerVars, panelVars, gestures, touch, mounted, authToken, cache,
                   fallback, hpc,
                   hdata, formError, sess, sent, arrived, arrivedBase>>

\* the workspace after activation from an empty cache, slide uploaded
SelectionInit ==
    /\ FramerIdle
    /\ dragState = NoDrag
    /\ released = <<>>
    /\ gestures = 0
    /\ before = <<>>
    /\ event = NoEvent
    /\ touch \in BOOLEAN
    /\ PanelIdle
    /\ HeaderIdle
    /\ mounted = TRUE
    /\ authToken = FALSE
    /\ project = UpdateSlideImage(createDefaultWorkspaceProject, TRUE)
    /\ cache = <<UpdateSlideImage(createDefaultWorkspaceProject, TRUE)>>
    /\ fallback = createDefaultWorkspaceProject
    /\ hpc = "done"
    /\ hdata = [gens |-> 0, slide |-> FALSE]
    /\ formError = "null"
    /\ sess = [s \in Sessions |-> NoSession]
    /\ sent = 0
    /\ arrived = <<>>
    /\ arrivedBase = 0

NextSelection ==
    \/ \E cx \in ClientXs, cy \in ClientYs : PointerDown(cx, cy)
    \/ \E cx \in ClientXs, cy \in ClientYs : StartMove(cx, cy)
    \/ \E h \in ResizeHandles : StartResize(h)
    \/ \E cx \in ClientXs, cy \in ClientYs : PointerMove(cx, cy)
    \/ PointerUp
    \/ PointerLeave
    \/ ClearSelection
    \/ Reload

SpecSelection == SelectionInit /\ [][NextSelection]_vars

\* ------------------------------------------------------------------------
\* The control panel's edits: rename, prompt, slide image
\* ------------------------------------------------------------------------
\* what the user types as a name: a text, possibly with blanks around it
TypedNames ==
    { [text |-> "Deck A", padded |-> FALSE],
      [text |-> "Deck B", padded |-> TRUE],
      [text |-> "", padded |-> TRUE] }

\* nextName.trim()
TrimmedName(typed) == typed.text

\* handleRename line 29: the trimmed text, 'Untitled project' when it is empty
NameOf(typed) ==
    IF TrimmedName(typed) = "" THEN "Untitled project" ELSE TrimmedName(typed)

Prompts == {"make it pop", "less text"}

\* the files the user may pick
Files == {"image", "not-image", "too-large", "unreadable"}

\* updateProject({ name })
UpdateName(p, name) == [p EXCEPT !.name = name]

\* a catch block that only swallows the error
OnRenameFailureBad(p, name) == p

\* handleRename's catch block: updateProject({ name })
OnRenameFailure(p, name) == UpdateName(p, name)

\* an updatePrompt that builds the project anew instead of spreading prev
updatePromptBad(p, prompt) == [createDefaultWorkspaceProject EXCEPT !.prompt = prompt]

\* updatePrompt(prompt)
updatePrompt(p, prompt) == [p EXCEPT !.prompt = prompt]

Edited(field, value) ==
    /\ edits < MaxEdits
    /\ edits' = edits + 1
    /\ lastEdit' = [field |-> field, value |-> value]

FreeRename == CHOOSE r \in RenameCalls : renames[r].pc = "idle"

\* handleRename up to renameProject's first await: without a credential
\* renameProject throws at once and the catch block applies the name;
\* with one the PATCH is sent and nothing is applied yet
Rename(typed) ==
    /\ UserCanAct
    /\ \E r \in RenameCalls : renames[r].pc = "idle"
    /\ Edited("name", NameOf(typed))
    /\ IF authToken
       THEN /\ renames' = [renames EXCEPT ![FreeRename] =
                             [pc |-> "patching", name |-> NameOf(typed), thrown |-> FALSE,
                              applied |-> FALSE]]
            /\ UNCHANGED <<project, cache>>
       ELSE /\ renames' = [renames EXCEPT ![FreeRename] =
                             [pc |-> "failed", name |-> NameOf(typed), thrown |-> TRUE,
                              applied |-> FALSE]]
            /\ Commit(OnRenameFailure(project, NameOf(typed)))
    /\ UNCHANGED <<framerVars, headerVars, editorVars, upload, uploadError, mounted, authToken, fallback,
                   hpc, hdata, formError, sess, sent, arrived, arrivedBase>>

\* the PATCH is answered (ok, not ok) or fetch rejects (fault): renameProject
\* applies the name after an ok answer and throws otherwise, and then
\* handleRename's catch block applies it
\* the remote store applies the PATCH of call r, some time before its answer
\* reaches the browser
RenameApply(r) ==
    /\ renames[r].pc = "patching"
    /\ ~renames[r].applied
    /\ renames' = [renames EXCEPT ![r].applied = TRUE]
    /\ remoteName' = renames[r].name
    /\ UNCHANGED <<framerVars, deletion, deleteError, deletes, marker, remoteRecord, editorVars,
                   upload, uploadError, lastEdit, edits, mainVars>>

RenameRespond(r, outcome) ==
    /\ renames[r].pc = "patching"
    /\ NoFrameInHand
    /\ outcome = "not-ok" => ~renames[r].applied
    /\ IF outcome = "ok"
       THEN /\ renames' = [renames EXCEPT ![r].pc = "done", ![r].applied = TRUE]
            /\ remoteName' = IF renames[r].applied THEN remoteName ELSE renames[r].name
            /\ Commit(UpdateName(project, renames[r].name))
       ELSE /\ renames' = [renames EXCEPT ![r].pc = "failed", ![r].thrown = TRUE]
            /\ UNCHANGED remoteName
            /\ Commit(OnRenameFailure(project, renames[r].name))
    /\ UNCHANGED <<framerVars, deletion, deleteError, deletes, marker, remoteRecord, editorVars,
                   upload, uploadError, lastEdit, edits, mounted,
                   authToken, fallback, hpc, hdata, formError, sess, sent, arrived,
                   arrivedBase>>

\* the prompt field's onChange: updatePrompt
PromptChange(prompt) ==
    /\ UserCanAct
    /\ Edited("prompt", prompt)
    /\ Commit(updatePrompt(project, prompt))
    /\ UNCHANGED <<framerVars, headerVars, editorVars, renames, upload, uploadError, mounted, authToken,
                   fallback, hpc, hdata, formError, sess, sent, arrived, arrivedBase>>

\* handleSlideUpload up to its fetch: the file is checked and read, the image
\* applied, and with a credential the POST is sent
HandleSlideUpload(file) ==
    /\ UserCanAct
    /\ upload = "idle"
    /\ CASE file = "not-image" ->
               /\ uploadError' = "Only PNG or JPG images are supported."
               /\ UNCHANGED <<project, cache, upload, lastEdit, edits>>
         [] file = "too-large" ->
               /\ uploadError' = "File too large. Max size is 10MB."
               /\ UNCHANGED <<project, cache, upload, lastEdit, edits>>
         [] file = "unreadable" ->
               /\ uploadError' = "Could not load the selected image. Try again."
               /\ UNCHANGED <<project, cache, upload, lastEdit, edits>>
         [] file = "image" ->
               /\ uploadError' = "null"
               /\ Edited("slideImage", TRUE)
               /\ Commit(UpdateSlideImage(project, TRUE))
               /\ upload' = IF authToken THEN "posting" ELSE "idle"
    /\ UNCHANGED <<framerVars, headerVars, editorVars, renames, mounted, authToken, fallback, hpc, hdata,
                   formError, sess, sent, arrived, arrivedBase>>

\* the POST is answered (ok, not ok: the handler returns) or fetch rejects
\* (fault: the catch block sets the message)
SlidePostRespond(outcome) ==
    /\ upload = "posting"
    /\ upload' = "idle"
    /\ uploadError' = IF outcome = "fault" /\ mounted
                      THEN "Could not load the selected image. Try again."
                      ELSE uploadError
    /\ UNCHANGED <<framerVars, headerVars, editorVars, mainVars, renames, lastEdit, edits>>

RemoteOutcomes == {"ok", "not-ok", "fault"}

MaxDeletes == 2

\* a handleDelete that clears the local copies before asking the remote store
DeleteBad ==
    /\ UserCanAct
    /\ deletion \in {"idle", "failed"}
    /\ deletes < MaxDeletes
    /\ deletes' = deletes + 1
    /\ cache' = <<>>
    /\ marker' = FALSE
    /\ IF authToken
       THEN deletion' = "deleting" /\ deleteError' = "null"
       ELSE /\ deletion' = "failed"
            /\ deleteError' = "Failed to delete the project. Please try again."
    /\ UNCHANGED <<framerVars, editorVars, panelVars, remoteRecord, remoteName, mounted, authToken,
                   project, fallback, hpc, hdata, formError, sess, sent, arrived,
                   arrivedBase>>

\* handleDelete up to its fetch: without a credential it throws at once and
\* the catch block sets the message
Delete ==
    /\ UserCanAct
    /\ deletion \in {"idle", "failed"}
    /\ deletes < MaxDeletes
    /\ deletes' = deletes + 1
    /\ IF authToken
       THEN deletion' = "deleting" /\ deleteError' = "null"
       ELSE /\ deletion' = "failed"
            /\ deleteError' = "Failed to delete the project. Please try again."
    /\ UNCHANGED <<framerVars, editorVars, panelVars, marker, remoteRecord, remoteName, mainVars>>

\* the DELETE is answered or fetch rejects: after an ok answer the cache and
\* the marker are removed (router.push follows), otherwise the catch block
\* sets the message.  A request that failed on the way back may have been
\* carried out by the remote store.
DeleteRespond(outcome) ==
    /\ deletion = "deleting"
    /\ IF outcome = "ok"
       THEN /\ deletion' = "deleted"
            /\ remoteRecord' = FALSE
            /\ cache' = <<>>
            /\ marker' = FALSE
            /\ UNCHANGED deleteError
       ELSE /\ deletion' = "failed"
            /\ remoteRecord' \in (IF outcome = "fault" THEN {remoteRecord, FALSE}
                                   ELSE {remoteRecord})
            /\ deleteError' = IF mounted
                              THEN "Failed to delete the project. Please try again."
                              ELSE deleteError
            /\ UNCHANGED <<cache, marker>>
    /\ UNCHANGED <<framerVars, editorVars, panelVars, deletes, remoteName, mounted, authToken, project,
                   fallback, hpc, hdata, formError, sess, sent, arrived, arrivedBase>>

\* the workspace after activation, with or without a credential
EditsInit ==
    /\ FramerIdle
    /\ EditorIdle
    /\ PanelIdle
    /\ HeaderIdle
    /\ mounted = TRUE
    /\ authToken \in BOOLEAN
    /\ project = createDefaultWorkspaceProject
    /\ cache = <<createDefaultWorkspaceProject>>
    /\ fallback = createDefaultWorkspaceProject
    /\ hpc = "done"
    /\ hdata = [gens |-> 0, slide |-> FALSE]
    /\ formError = "null"
    /\ sess = [s \in Sessions |-> NoSession]
    /\ sent = 0
    /\ arrived = <<>>
    /\ arrivedBase = 0

NextEdits ==
    \/ \E typed \in TypedNames : Rename(typed)
    \/ \E r \in RenameCalls, outcome \in RemoteOutcomes : RenameRespond(r, outcome)
    \/ \E prompt \in Prompts : PromptChange(prompt)
    \/ \E file \in Files : HandleSlideUpload(file)
    \/ \E outcome \in RemoteOutcomes : SlidePostRespond(outcome)
    \/ Delete
    \/ \E outcome \in RemoteOutcomes : DeleteRespond(outcome)
    \/ Unmount

SpecEdits == EditsInit /\ [][NextEdits]_vars

\* renames alone, with a remote store that applies them in any order
NextRenames ==
    \/ \E typed \in TypedNames : Rename(typed)
    \/ \E r \in RenameCalls : RenameApply(r)
    \/ \E r \in RenameCalls, outcome \in RemoteOutcomes : RenameRespond(r, outcome)
    \/ Unmount

SpecRenames == EditsInit /\ [][NextRenames]_vars

\* the scripted session with the control panel's edits between its frames;
\* the project starts one result short of the limit
InterleavedVariants == 2

InterleavedInit == ScenarioInit /\ Len(project.results) = MAX_RESULTS - 1

NextInterleaved ==
    \/ Generate(InterleavedVariants, 1)
    \/ Respond(1, "stream")
    \/ \E c \in Cuts : ReadChunk(1, ScriptText, c, sess[1].variant + 1)
    \/ HandleFrame(1)
    \/ \E typed \in TypedNames : Rename(typed)
    \/ \E r \in RenameCalls, outcome \in RemoteOutcomes : RenameRespond(r, outcome)
    \/ \E prompt \in Prompts : PromptChange(prompt)
    \/ HandleSlideUpload("image")
    \/ \E outcome \in RemoteOutcomes : SlidePostRespond(outcome)

SpecInterleaved == InterleavedInit /\ [][NextInterleaved]_vars

\* ------------------------------------------------------------------------
\* Activation on its own: every cache, every answer of the remote store
\* ------------------------------------------------------------------------
ActivationInit ==
    /\ FramerIdle
    /\ EditorIdle
    /\ PanelIdle
    /\ HeaderIdle
    /\ mounted = TRUE
    /\ authToken \in BOOLEAN
    /\ project = createDefaultWorkspaceProject
    /\ cache \in ActivationCaches
    /\ fallback = createDefaultWorkspaceProject
    /\ hpc = "start"
    /\ hdata = [gens |-> 0, slide |-> FALSE]
    /\ formError = "null"
    /\ sess = [s \in Sessions |-> NoSession]
    /\ sent = 0
    /\ arrived = <<>>
    /\ arrivedBase = 0

NextActivation == Hydrate \/ User

SpecActivation == ActivationInit /\ [][NextActivation]_vars

\* every request of hydrate is answered or fails
SpecActivationFair == ActivationInit /\ [][NextActivation]_vars /\ WF_vars(Hydrate)

\* ------------------------------------------------------------------------
\* Edits in the control panel while the workspace is being activated: no
\* component waits for isHydrated
\* ------------------------------------------------------------------------
NextActivationEdits ==
    \/ Hydrate
    \/ \E p \in Prompts : PromptChange(p)
    \/ \E f \in Files : HandleSlideUpload(f)
    \/ \E o \in RemoteOutcomes : SlidePostRespond(o)
    \/ Unmount

SpecActivationEdits == ActivationInit /\ [][NextActivationEdits]_vars

\* ------------------------------------------------------------------------
\* Claims
\* ------------------------------------------------------------------------
Active(s) == sess[s].pc \in {"requesting", "reading", "framing"}

\* the frame the inner loop is about to dispatch
FrameInHand(s) == parseSseEvent(RawEvent(sess[s].buffer))

Dispatching(s, kind) ==
    /\ sess[s].pc = "framing"
    /\ RawEvent(sess[s].buffer) # <<>>
    /\ KindOf(FrameInHand(s)) = kind

\* C1: at most one generation session of the project is active at any time.
C1_OneSessionAtATime == Cardinality({s \in Sessions : Active(s)}) <= 1

\* C2: whatever way the stream was cut into chunks, once every chunk has been
\* fed the frames are those of the uncut stream, and the two chunks
\* "event: resu" / "lt\ndata: {"id":"1"}\n\n" give exactly one result frame.
C2_ChunkInvariance ==
    fChunks = <<>> =>
        /\ fFrames = Drain(fStream, <<>>).frames
        /\ fFed = <<ScenarioA1, ScenarioA2>> =>
              fFrames = <<[event |-> EV_RESULT, data |-> IdJson(<<"1">>)]>>

C2_Witness ==
    /\ fChunks = <<>>
    /\ fFed = <<ScenarioA1, ScenarioA2>>
    /\ Len(fFrames) = 1

\* C3: an error frame whose payload decodes to a message sets
\* generationStatus to error, generationError to that message and
\* pendingSlots to 0.
C3_ErrorFrameZeroesSlots ==
    [][\A s \in Sessions :
          (/\ mounted
           /\ Dispatching(s, "error")
           /\ JsonParse(FrameInHand(s).data).ok
           /\ JsonParse(FrameInHand(s).data).message \notin {Undefined, <<>>})
          => /\ project'.generationStatus = "error"
             /\ project'.generationError = JsonParse(FrameInHand(s).data).message
             /\ project'.pendingSlots = 0]_vars

\* C4: when the read loop is left because the transport ended (the stream
\* closed or the read failed) the session ends as an error with a message
\* and pendingSlots = 0.
C4_TransportEndIsError ==
    [][\A s \in Sessions :
          (mounted /\ sess[s].pc = "reading" /\ sess'[s].pc = "ended")
          => /\ project'.generationStatus = "error"
             /\ project'.generationError # NoError
             /\ project'.pendingSlots = 0]_vars

\* C5: no session that has ended, and no session of a torn-down workspace,
\* still holds an open reader.
C5_ReaderReleased ==
    \A s \in Sessions :
        (sess[s].pc = "ended" \/ ~mounted) => sess[s].reader # "open"

\* C6: in a session of n results then done, started with at most 12 - n
\* results, pendingSlots is n minus the results handled so far (n, n-1, ..., 0),
\* is still 0 after done, the status ends idle and results grew by exactly n.
C6_SlotsCountDown ==
    /\ (Active(1) /\ sess[1].startLen <= MAX_RESULTS - sess[1].variant) =>
          /\ project.pendingSlots = sess[1].variant - sess[1].got
          /\ project.generationStatus = "generating"
          /\ Len(project.results) = sess[1].startLen + sess[1].got
    /\ (sess[1].pc = "ended" /\ arrivedBase <= MAX_RESULTS - (sent - 1)) =>
          /\ sess[1].via = "done"
          /\ project.pendingSlots = 0
          /\ project.generationStatus = "idle"
          /\ Len(project.results) = arrivedBase + (sent - 1)

C6_Witness ==
    /\ sess[1].pc = "ended"
    /\ sess[1].via = "done"
    /\ sent = 4
    /\ arrivedBase = 9
    /\ Len(project.results) = 12

\* C7: a result frame whose payload decodes appends exactly that one result
\* at the end of results, keeping the last 12; lowers pendingSlots by one
\* but not below 0; and leaves generationStatus as it was (generating).
C7_ResultFrame ==
    [][\A s \in Sessions :
          (/\ mounted
           /\ Dispatching(s, "result")
           /\ JsonParse(FrameInHand(s).data).ok)
          => LET id  == JsonParse(FrameInHand(s).data).id
                 old == project.results
                 new == project'.results
             IN  /\ Len(new) = (IF Len(old) < MAX_RESULTS THEN Len(old) + 1 ELSE MAX_RESULTS)
                 /\ new[Len(new)] = id
                 /\ \A i \in 1..(Len(new) - 1) : new[i] = old[Len(old) + 1 - Len(new) + i]
                 /\ project'.pendingSlots =
                       (IF project.pendingSlots > 0 THEN project.pendingSlots - 1 ELSE 0)
                 /\ project'.generationStatus = project.generationStatus
                 /\ sess'[s].pc # "ended"]_vars

\* a result arrived with no slot pending: more results than variantCount
C7_Witness ==
    /\ mounted
    /\ sess[1].pc \in {"reading", "framing"}
    /\ sess[1].got > sess[1].variant
    /\ project.generationStatus = "generating"
    /\ project.pendingSlots = 0

\* C8: once a done or error frame has been handled the session handles
\* nothing more, also not the frames that were already in its buffer.
C8_TerminalIsFinal ==
    [][\A s \in Sessions :
          sess[s].via \in {"done", "error"} => sess'[s] = sess[s] /\ sent' = sent]_vars

C8_Witness ==
    \E s \in Sessions : sess[s].via \in {"done", "error"} /\ sess[s].left

\* C9: once results were appended one by one past 12 in total, the list
\* holds exactly the 12 appended last, in the order they arrived.
C9_Eviction ==
    (Len(arrived) > arrivedBase /\ Len(arrived) > MAX_RESULTS) =>
        project.results = SubSeq(arrived, Len(arrived) - MAX_RESULTS + 1, Len(arrived))

C9_Witness ==
    /\ arrivedBase = 11
    /\ Len(arrived) = 13
    /\ Len(project.results) = 12

\* C10: the results list never has more than 12 entries.
C10_ResultsCapped == Len(project.results) <= MAX_RESULTS

\* C11: pendingSlots is never negative, in the project and in the record the
\* cache holds, across session starts, result, error and done frames (also
\* more results than variantCount) and clear-results actions.
C11_PendingSlotsNonNegative ==
    /\ project.pendingSlots >= 0
    /\ \A i \in 1..Len(cache) : cache[i].pendingSlots >= 0

\* two results handled in a session that asked for one
C11_Witness ==
    /\ mounted
    /\ sess[1].variant = 1
    /\ sess[1].got = 2
    /\ project.pendingSlots = 0

\* C12: a frame whose event name is none of result, error, done (also the
\* default message) changes nothing of the project, and the session goes on
\* with the rest of its buffer.
C12_UnknownEventIsNoOp ==
    [][\A s \in Sessions :
          (/\ sess[s].pc = "framing"
           /\ RawEvent(sess[s].buffer) # <<>>
           /\ FrameInHand(s).event \notin {EV_RESULT, EV_ERROR, EV_DONE})
          => /\ project' = project
             /\ cache' = cache
             /\ formError' = formError
             /\ sess'[s] = [sess[s] EXCEPT !.buffer = RestBuffer(sess[s].buffer),
                                           !.pc = LoopPc(RestBuffer(sess[s].buffer))]]_vars

\* the one frame sent was consumed, nothing changed, the session still reads
C12_Witness ==
    /\ mounted
    /\ sent = 1
    /\ sess[1].pc = "reading"
    /\ sess[1].buffer = <<>>
    /\ sess[1].wire = <<>>
    /\ sess[1].got = 0
    /\ project.generationStatus = "generating"
    /\ project.pendingSlots = sess[1].variant

\* what C13 says a block's frame is
IsEventLine(line) == StartsWith(line, EVENT_MARK)

IsDataLine(line) == StartsWith(line, DATA_MARK)

ValueOf(line, mark) == Trim(SubSeq(line, Len(mark) + 1, Len(line)))

FrameOfBlock(block) ==
    LET lines == SplitLines(block)
        ev    == SelectSeq(lines, IsEventLine)
        da    == SelectSeq(lines, IsDataLine)
    IN  [ event |-> IF ev = <<>> THEN DEFAULT_EVENT ELSE ValueOf(ev[Len(ev)], EVENT_MARK),
          data  |-> JoinLines([i \in 1..Len(da) |-> ValueOf(da[i], DATA_MARK)]) ]

RECURSIVE BlockFrames(_)
BlockFrames(text) ==
    IF IndexOfBoundary(text) = -1 THEN <<>>
    ELSE LET block == Trim(SubSeq(text, 1, IndexOfBoundary(text)))
             rest  == SubSeq(text, IndexOfBoundary(text) + 3, Len(text))
         IN  (IF block = <<>> THEN <<>> ELSE <<FrameOfBlock(block)>>) \o BlockFrames(rest)

\* C13: each block of the stream that is not empty gives one frame, whose
\* event name is the value of the block's (last) event line, message when it
\* has none, and whose payload is the values of its data lines joined by
\* newlines in their order; an empty block gives no frame.
C13_FrameOfEachBlock ==
    fChunks = <<>> => fFrames = BlockFrames(fStream)

\* two data lines after an empty line, no event line
C13_Witness ==
    /\ fChunks = <<>>
    /\ fStream # <<>>
    /\ Head(fStream) = NL
    /\ fFrames = <<[event |-> DEFAULT_EVENT, data |-> <<"a", NL, "b">>]>>

\* C14: generation does not start without a slide image or without a
\* selection: a request is only issued when the project has both, and an
\* attempt without one of them leaves the project and the sessions as they
\* were.
C14_ValidationBlocks ==
    [][/\ \A s \in Sessions :
             (sess[s].pc = "unused" /\ sess'[s].pc = "requesting")
             => (project.slideImage /\ project.selection # <<>>)
       /\ (formError' # formError /\ (~project.slideImage \/ project.selection = <<>>))
             => UNCHANGED <<project, sess>>]_vars

\* C15: without a credential no generate request is ever issued, and the
\* attempt that reports it ends with generationStatus error, the
\* authentication message, pendingSlots 0 and the results as they were.
C15_NoCredentialNoRequest ==
    [][/\ ~authToken => \A s \in Sessions : sess'[s].pc = "unused"
       /\ (/\ ~authToken
           /\ formError # "Please log in to generate visuals."
           /\ formError' = "Please log in to generate visuals.")
          => /\ project'.generationStatus = "error"
             /\ project'.generationError = <<"Authentication required.">>
             /\ project'.pendingSlots = 0
             /\ project'.results = project.results]_vars

C15_Witness ==
    /\ ~authToken
    /\ formError = "Please log in to generate visuals."
    /\ project.generationStatus = "error"
    /\ project.generationError = <<"Authentication required.">>
    /\ project.pendingSlots = 0
    /\ Len(project.results) = 11

\* hydrate returns in this step, in a provider that is still mounted
ActivationEnds == mounted /\ hpc # "done" /\ hpc' = "done"

\* C16: on every path activation ends with generationStatus idle,
\* generationError null and pendingSlots 0, whatever the cache or the remote
\* store held.
C16_ActivationResetsSession ==
    [][ActivationEnds
          => /\ project'.generationStatus = "idle"
             /\ project'.generationError = NoError
             /\ project'.pendingSlots = 0]_vars

\* C17 as stated: with no credential the project after activation is the
\* cached project in every field except generationStatus, which is idle.
C17_NoCredentialKeepsCache ==
    [][(ActivationEnds /\ ~authToken)
          => project' = [loadWorkspaceProject(cache) EXCEPT !.generationStatus = "idle"]]_vars

\* C17 amended: with no credential the project after activation is the
\* cached project in every field except generationStatus, which is idle, and
\* generationError, which is null.
C17_NoCredentialKeepsCacheButError ==
    [][(ActivationEnds /\ ~authToken)
          => project' = [loadWorkspaceProject(cache) EXCEPT !.generationStatus = "idle",
                                                            !.generationError = NoError]]_vars

\* activation without a credential over a cache that held generating
C17_Witness ==
    /\ ~authToken
    /\ hpc = "done"
    /\ fallback = CachedProject
    /\ project = [CachedProject EXCEPT !.generationStatus = "idle"]

\* C18: activation ends either with the complete remote record (every call
\* answered) or, when any call failed, with the project built from the cache;
\* no error is shown.
C18_FailureFallsBackToCache ==
    [][ActivationEnds
          => /\ \/ /\ hpc \in {"images", "slide"}
                   /\ project' = Hydrated(hdata.gens, hdata.slide)
                \/ project' = ResetState(fallback')
             /\ formError' = formError]_vars

WellFormed(p) ==
    /\ DOMAIN p = DOMAIN createDefaultWorkspaceProject
    /\ p.slideImage \in BOOLEAN
    /\ Len(p.selection) <= 1
    /\ DOMAIN p.results = 1..Len(p.results)
    /\ p.generationStatus \in {"idle", "generating", "error"}
    /\ p.pendingSlots \in Nat

\* C19: provided every remote call is answered or fails, activation ends,
\* and the project is well-formed throughout, whatever the cache held
\* (nothing, a project, text that does not parse).
C19_ActivationEnds ==
    /\ <>(hpc = "done")
    /\ [](WellFormed(project) /\ (hpc = "done" => WellFormed(cache[1])))

\* the remote store failed and the cached project was used
C19_Witness ==
    /\ authToken
    /\ mounted
    /\ hpc = "done"
    /\ project = ResetState(CachedErrorProject)

\* C20: when a drawing gesture is released (pointer up, or the pointer leaves
\* the overlay) with a rectangle less than 20 wide or less than 20 high, the
\* project is left with no selection, as when drawing (10,10) to (15,12).
C20_SelectionMinimum ==
    [][(/\ dragState.type = "drawing"
        /\ event'.type \in {"up", "leave"}
        /\ project.selection # <<>>
        /\ (project.selection[1].width < 20 \/ project.selection[1].height < 20))
          => /\ project'.selection = <<>>
             /\ cache'[1].selection = <<>>]_vars

C20_Witness ==
    /\ dragState = NoDrag
    /\ released = <<Rect(10, 10, 5, 2)>>
    /\ project.selection = <<>>

\* C21: a drawing gesture released with a rectangle less than 20 wide or less
\* than 20 high is as if no gesture had occurred: the selection after the
\* release is the one from before the gesture's press, whether or not there
\* was one (one pointer).
C21_SmallDrawingIsNoGesture ==
    [][(/\ ~touch
        /\ dragState.type = "drawing"
        /\ event'.type \in {"up", "leave"}
        /\ project.selection # <<>>
        /\ (project.selection[1].width < 20 \/ project.selection[1].height < 20))
          => project'.selection = before]_vars

\* C22: throughout a resize gesture the selection is never less than 20 wide
\* or less than 20 high and never inverts, and a corner handle dragged past
\* the opposite edges leaves it exactly 20 wide and 20 high.
C22_ResizeNeverInverts ==
    (dragState.type = "resize" /\ project.selection # <<>>) =>
        LET r == project.selection[1]
            i == dragState.initial
            h == dragState.handle
            pastX == \/ h \in {"top-left", "bottom-left"} /\ event.x >= i.x + i.width
                     \/ h \in {"top-right", "bottom-right"} /\ event.x <= i.x
            pastY == \/ h \in {"top-left", "top-right"} /\ event.y >= i.y + i.height
                     \/ h \in {"bottom-left", "bottom-right"} /\ event.y <= i.y
        IN  /\ r.width >= 20
            /\ r.height >= 20
            /\ (event.type = "move" /\ pastX /\ pastY) => (r.width = 20 /\ r.height = 20)

\* C23: a resize gesture moves only the edges its handle names: with a left
\* (top) handle the right (bottom) edge stays where initialRect has it, with a
\* right (bottom) handle x (y) stays, and a handle naming no edge of an axis
\* leaves that axis exactly as in initialRect.
C23_ResizeMovesNamedEdges ==
    (dragState.type = "resize" /\ project.selection # <<>>) =>
        LET r == project.selection[1]
            i == dragState.initial
            h == dragState.handle
        IN  /\ h \in {"top-left", "bottom-left", "left"} => r.x + r.width = i.x + i.width
            /\ h \in {"top-right", "bottom-right", "right"} => r.x = i.x
            /\ h \in {"top", "bottom"} => (r.x = i.x /\ r.width = i.width)
            /\ h \in {"top-left", "top-right", "top"} => r.y + r.height = i.y + i.height
            /\ h \in {"bottom-left", "bottom-right", "bottom"} => r.y = i.y
            /\ h \in {"left", "right"} => (r.y = i.y /\ r.height = i.height)

\* C24: during a move gesture the selection keeps initialRect's width and
\* height, and its position is initialRect's translated by (current point -
\* start point) and clamped to 0 <= x <= W - width, 0 <= y <= H - height.
C24_MoveTranslatesAndClamps ==
    (dragState.type = "move" /\ project.selection # <<>>) =>
        LET r == project.selection[1]
            i == dragState.initial
            toX == i.x + (event.x - dragState.startX)
            toY == i.y + (event.y - dragState.startY)
            highX == SurfaceWidth - i.width
            highY == SurfaceHeight - i.height
        IN  /\ r.width = i.width
            /\ r.height = i.height
            /\ r.x = (IF toX < 0 THEN 0 ELSE IF toX > highX THEN highX ELSE toX)
            /\ r.y = (IF toY < 0 THEN 0 ELSE IF toY > highY THEN highY ELSE toY)
            /\ 0 <= r.x /\ r.x <= SurfaceWidth - r.width
            /\ 0 <= r.y /\ r.y <= SurfaceHeight - r.height

\* C25: a press is dispatched by what it lands on.  On the selection's body
\* it begins a move whose initialRect is the current selection and whose
\* start is the press point; on a handle it begins a resize with that handle
\* and the current selection as initialRect; neither alters the selection.
\* Anywhere else it begins a drawing whose origin is the press point and
\* replaces the selection by the zero-size rectangle at that point.
C25_PressDispatch ==
    [][(gestures' # gestures) =>
          LET t == event'.target
              inside == /\ project.selection # <<>>
                        /\ project.selection[1].width > 0
                        /\ project.selection[1].height > 0
                        /\ project.selection[1].x <= event'.x
                        /\ event'.x <= project.selection[1].x + project.selection[1].width
                        /\ project.selection[1].y <= event'.y
                        /\ event'.y <= project.selection[1].y + project.selection[1].height
          IN  /\ event'.type = "down"
              /\ t = "body" =>
                    /\ inside
                    /\ dragState' = [type |-> "move", startX |-> event'.x,
                                     startY |-> event'.y, initial |-> project.selection[1]]
                    /\ project' = project /\ cache' = cache
              /\ t = "overlay" =>
                    /\ ~inside
                    /\ dragState' = [type |-> "drawing", originX |-> event'.x,
                                     originY |-> event'.y]
                    /\ project'.selection =
                          <<[x |-> event'.x, y |-> event'.y, width |-> 0, height |-> 0,
                             ratio |-> "custom"]>>
                    /\ cache' = <<project'>>
              /\ t \notin {"body", "overlay"} =>
                    /\ t \in {"top-left", "top-right", "bottom-left", "bottom-right",
                               "top", "bottom", "left", "right"}
                    /\ dragState' = [type |-> "resize", handle |-> t,
                                     initial |-> project.selection[1]]
                    /\ project' = project /\ cache' = cache]_vars

C25_Witness ==
    /\ event.type = "down"
    /\ event.target = "body"
    /\ dragState.type = "move"
    /\ dragState.startX = event.x
    /\ project.selection = <<dragState.initial>>
    /\ gestures = 2

\* C26: a pointer-up and a pointer-leave have the same effect in every mode:
\* the mode returns to none and the rectangle is kept as it is, except that a
\* drawing's rectangle less than 20 wide or less than 20 high is discarded.
C26_UpAndLeaveAlike ==
    [][(dragState.type # "none" /\ event'.type \in {"up", "leave"}) =>
          /\ dragState' = [type |-> "none"]
          /\ project'.selection =
                (IF /\ dragState.type = "drawing"
                    /\ project.selection # <<>>
                    /\ (project.selection[1].width < 20 \/ project.selection[1].height < 20)
                 THEN <<>>
                 ELSE project.selection)
          /\ cache'[1].selection = project'.selection]_vars

C26_Witness ==
    /\ event.type = "leave"
    /\ dragState = NoDrag
    /\ released # <<>>
    /\ project.selection = <<>>

\* C27: the explicit clear is available whenever there is a selection,
\* whatever the gesture mode, and removes the selection (from the state and
\* from the cache) without touching the mode.
C27_ClearInAnyMode ==
    /\ [](project.selection # <<>> => ENABLED ClearSelection)
    /\ [][event'.type = "clear" =>
             /\ project'.selection = <<>>
             /\ cache'[1].selection = <<>>
             /\ dragState' = dragState]_vars

C27_Witness ==
    /\ event.type = "clear"
    /\ dragState.type = "resize"
    /\ project.selection = <<>>
    /\ cache[1].selection = <<>>

\* C28: only the first pointer is honoured: while a gesture is in progress a
\* press by another pointer changes neither the mode nor the selection.
C28_OnlyPrimaryPointer ==
    [][(dragState.type # "none" /\ gestures' # gestures) =>
          (dragState' = dragState /\ project' = project /\ cache' = cache)]_vars

\* C29: every edit the user asks for (a rename, a prompt change, a slide
\* image) is in the project and in the cache as soon as it is asked for,
\* without waiting for a call to the remote store.
C29_EditsAppliedAtOnce ==
    [][(mounted /\ edits' # edits) =>
          CASE lastEdit'.field = "name" ->
                 project'.name = lastEdit'.value /\ cache'[1].name = lastEdit'.value
            [] lastEdit'.field = "prompt" ->
                 project'.prompt = lastEdit'.value /\ cache'[1].prompt = lastEdit'.value
            [] lastEdit'.field = "slideImage" ->
                 project'.slideImage = lastEdit'.value
                    /\ cache'[1].slideImage = lastEdit'.value]_vars

\* C30: when a rename cannot be stored remotely (no credential, an answer that
\* is not ok, a network fault) renameProject throws to its caller and the
\* project's name, in state and in the cache, still becomes the requested
\* name: nothing is rolled back.
C30_FailedRenameKeepsName ==
    [][\A r \in RenameCalls :
          (/\ mounted
           /\ renames[r].pc \in {"idle", "patching"}
           /\ renames'[r].pc = "failed")
          => /\ renames'[r].thrown
             /\ project'.name = renames'[r].name
             /\ cache'[1].name = renames'[r].name]_vars

C30_Witness ==
    \E r \in RenameCalls :
        /\ authToken
        /\ renames[r].pc = "failed"
        /\ renames[r].thrown
        /\ renames[r].name = "Deck B"
        /\ project.name = "Deck B"
        /\ cache[1].name = "Deck B"

\* C31: when the slide image's request to the remote store ends, also with an
\* answer that is not ok or with a network fault, no message is shown and
\* the slide image applied locally stays.
C31_SlideSyncFailureIsSilent ==
    [][(mounted /\ upload = "posting" /\ upload' = "idle") =>
          /\ uploadError' = "null"
          /\ project'.slideImage = project.slideImage
          /\ cache' = cache]_vars

\* C32: a delete that succeeds removes the remote record, the cache and the
\* active-project marker, and the cache and the marker are removed in no
\* other case; a delete that fails (the remote store refuses, the request
\* fails, no credential) leaves the cache and the marker as they are and
\* shows a message.
C32_DeleteClearsAfterRemote ==
    [][/\ (deletion # "deleted" /\ deletion' = "deleted") =>
             (authToken /\ ~remoteRecord' /\ cache' = <<>> /\ ~marker')
       /\ ((cache # <<>> /\ cache' = <<>>) \/ (marker /\ ~marker')) =>
             (deletion' = "deleted" /\ ~remoteRecord')
       /\ (deletes' # deletes /\ ~authToken) \/ (deletion = "deleting" /\ deletion' = "failed")
             => /\ cache' = cache
                /\ marker' = marker
                /\ mounted => deleteError' # "null"]_vars

C32_Witness ==
    /\ deletion = "deleted"
    /\ deletes = 2
    /\ cache = <<>>
    /\ ~marker
    /\ ~remoteRecord

\* C33: a mutation leaves the fields it does not name alone, also between the
\* frames of an active session: a prompt, slide-image or name edit changes
\* only its own field, and a result append changes only results,
\* pendingSlots and generationError and keeps every earlier result that fits
\* the limit.
C33_MutationsKeepOtherFields ==
    [][/\ (mounted /\ edits' # edits /\ lastEdit'.field = "prompt") =>
             /\ project' = [project EXCEPT !.prompt = lastEdit'.value]
             /\ cache' = <<project'>>
       /\ (mounted /\ edits' # edits /\ lastEdit'.field = "slideImage") =>
             /\ project' = [project EXCEPT !.slideImage = lastEdit'.value]
             /\ cache' = <<project'>>
       /\ \A r \in RenameCalls :
             (mounted /\ renames[r].pc \in {"idle", "patching"}
                     /\ renames'[r].pc \in {"done", "failed"}) =>
                /\ project' = [project EXCEPT !.name = renames'[r].name]
                /\ cache' = <<project'>>
       /\ \A s \in Sessions :
             (mounted /\ sess[s].pc = "framing" /\ sess'[s].got = sess[s].got + 1) =>
                LET old == project.results
                    new == project'.results
                IN  /\ project'.id = project.id
                    /\ project'.name = project.name
                    /\ project'.prompt = project.prompt
                    /\ project'.slideImage = project.slideImage
                    /\ project'.selection = project.selection
                    /\ project'.generationStatus = project.generationStatus
                    /\ Len(new) = (IF Len(old) < 12 THEN Len(old) + 1 ELSE 12)
                    /\ \A i \in 1..(Len(new) - 1) : new[i] = old[Len(old) + 1 - Len(new) + i]
                    /\ cache' = <<project'>>]_vars

C33_Witness ==
    /\ sess[1].pc \in {"reading", "framing"}
    /\ sess[1].got = 1
    /\ project.generationStatus = "generating"
    /\ project.name = "Deck A"
    /\ project.prompt = "less text"
    /\ Len(project.results) = 12

\* C34: a result or error frame whose payload cannot be decoded ends the
\* whole session: generationStatus becomes error, pendingSlots 0, nothing is
\* appended, and the session handles no further frame, also when complete
\* frames were still waiting in its buffer.
C34_UndecodablePayloadAborts ==
    [][\A s \in Sessions :
          /\ (/\ mounted
               /\ sess[s].pc = "framing"
               /\ RawEvent(sess[s].buffer) # <<>>
               /\ FrameInHand(s).event \in {EV_RESULT, EV_ERROR}
               /\ ~JsonParse(FrameInHand(s).data).ok)
              => /\ project'.generationStatus = "error"
                 /\ project'.pendingSlots = 0
                 /\ project'.results = project.results
                 /\ sess'[s].pc = "ended"
          /\ sess[s].pc = "ended" => sess'[s] = sess[s]]_vars

\* aborted with a slot still pending and a complete frame left unread
C34_Witness ==
    /\ mounted
    /\ sess[1].pc = "ended"
    /\ sess[1].via = "throw"
    /\ sess[1].left
    /\ project.generationStatus = "error"
    /\ project.pendingSlots = 0

\* C35: a started session eventually ends, and the workspace that is still
\* mounted then shows idle or error, whatever result, unrecognized and
\* undecodable frames came first.
C35_SessionLeavesGenerating ==
    \A s \in Sessions :
       (sess[s].pc \in {"requesting", "reading", "framing"})
          ~> (/\ sess[s].pc = "ended"
              /\ mounted => project.generationStatus \in {"idle", "error"})

\* the stream closed after unrecognized frames only, without a done frame
C35_Witness ==
    /\ mounted
    /\ sess[1].pc = "ended"
    /\ sess[1].via = "close"
    /\ sent = MaxLiveSent
    /\ project.results = <<>>
    /\ project.generationStatus = "idle"

\* C36: once activation has completed, the project shows the last local
\* edit of the prompt or of the slide image, also when the edit was made
\* while activation's remote fetches were still under way.
C36_LocalChangeSurvivesActivation ==
    (mounted /\ hpc = "done")
       => /\ lastEdit.field = "prompt" => project.prompt = lastEdit.value
          /\ lastEdit.field = "slideImage" => project.slideImage = lastEdit.value

\* C37: whenever no gesture is in progress, also right after the workspace
\* was reloaded from the cache in the middle of a drawing, the selection in
\* state and in the cache is absent or at least 20 wide and 20 high.
C37_IdleSelectionIsValid ==
    dragState.type = "none" =>
        /\ \/ project.selection = <<>>
           \/ project.selection[1].width >= 20 /\ project.selection[1].height >= 20
        /\ \/ cache = <<>>
           \/ cache[1].selection = <<>>
           \/ cache[1].selection[1].width >= 20 /\ cache[1].selection[1].height >= 20

\* C38: with one pointer on a surface of fixed size, every selection emitted
\* while drawing, moving or resizing lies within the surface: 0 <= x,
\* 0 <= y, x + width <= W and y + height <= H.
C38_SelectionWithinSurface ==
    (~touch /\ dragState.type # "none" /\ project.selection # <<>>) =>
        LET r == project.selection[1]
        IN  /\ 0 <= r.x
            /\ 0 <= r.y
            /\ r.x + r.width <= SurfaceWidth
            /\ r.y + r.height <= SurfaceHeight

\* C40: after an explicit clear the selection stays absent until the next
\* press: no pointer-move, release or leave brings a selection back, also
\* when the clear came in the middle of a drawing, move or resize.
C40_ClearedUntilNextPress ==
    [][(/\ project.selection = <<>>
        /\ event'.type \in {"move", "up", "leave"})
          => /\ project'.selection = <<>>
             /\ cache'[1].selection = <<>>]_vars

\* C39: once every rename request has completed successfully, the local
\* project name is the name the remote store holds, in whatever order the
\* store applied overlapping requests and their answers arrived.
C39_RenamesConverge ==
    (mounted /\ \A r \in RenameCalls : renames[r].pc = "done")
        => project.name = remoteName

====
